---- MODULE Spec2Model ----
(***************************************************************************)
(* MegaBike: the team builder's roster validation (TeamBuilder.jsx) and    *)
(* the creation of a team with its roster rows (createMyTeam in api.js),   *)
(* read back by getMyTeam and driven by MyTeamPage.                        *)
(*                                                                         *)
(* One browser page (MyTeamPage with its TeamBuilder) and a bounded number *)
(* of createMyTeam calls in flight against one shared store.  A call is    *)
(* started by the page's submit button or directly (createMyTeam is an     *)
(* exported function and the store is reachable from any client).  Every   *)
(* awaited request to the store is one atomic step.  The login handler     *)
(* (verify-code.js) runs once per request against the same store.          *)
(***************************************************************************)
EXTENDS Integers, Sequences, FiniteSets, TLC

VARIABLES
  teams,         \* table "teams": set of rows
  team_riders,   \* table "team_riders": set of rows
  nextTeamId,    \* the id the store gives the next inserted team
  token,         \* the page's auth token: the user id in its sub, 0 when absent
  pagePc,        \* what MyTeamPage is doing / showing
  teamName,      \* TeamBuilder state: the team name input
  slots,         \* TeamBuilder state: DEFAULT_SLOTS entries, a rider or NULL
  error,         \* TeamBuilder state: the last validation message or NULL
  pageTeam,      \* MyTeamPage state `team`: what getMyTeam returned, or NULL
  pageError,     \* MyTeamPage state `error`
  readRow,       \* getMyTeam's local `team` between its two reads
  pageCall,      \* the createMyTeam call the page is awaiting, 0 when none
  callPc,        \* per call: position in createMyTeam
  userId,        \* per call: jwt.sub read at the start of createMyTeam
  payload,       \* per call: the payload argument
  team,          \* per call: the row returned by the teams insert, or NULL
  riderInserts,  \* per call: the rows to insert into team_riders
  idx,           \* per call: the loop index i of the lookup loop (1-based)
  result,        \* per call: "pending", "ok" or the error createMyTeam threw
  users,         \* table "users": set of rows
  nextUserId,    \* the id the store gives the next inserted user
  reqPc,         \* per verify-code request: position in the handler
  accessCode,    \* per request: req.body.accessCode, <<>> when falsy
  codeRow,       \* per request: the row of access_codes read, or NULL
  response       \* per request: the response sent, or NULL

vars == <<teams, team_riders, nextTeamId, token, pagePc, teamName, slots, error,
          pageTeam, pageError, readRow, pageCall, callPc, userId, payload, team,
          riderInserts, idx, result,
          users, nextUserId, reqPc, accessCode, codeRow, response>>

storeVars == <<teams, team_riders, nextTeamId>>
formVars == <<teamName, slots, error>>
pageVars == <<token, pagePc, pageTeam, pageError, readRow, pageCall>>
callVars == <<callPc, userId, payload, team, riderInserts, idx, result>>
loginVars == <<users, nextUserId, reqPc, accessCode, codeRow, response>>

-----------------------------------------------------------------------------
(* Program constants *)

DEFAULT_SLOTS == 12
BUDGET == 11000
season == 2025

(* Bounds of the model *)

MaxCalls == 2      \* createMyTeam calls in one behaviour
MaxUsers == 2      \* users that hold a token
MaxNameLen == 2    \* length of the team names tried on the validator
MaxVaried == 2     \* leading slots the validator inputs vary
MaxRequests == 3   \* verify-code requests in one behaviour

Calls == 1..MaxCalls
Users == 1..MaxUsers
Requests == 1..MaxRequests

\* JavaScript null / undefined
NULL == [null |-> TRUE]

-----------------------------------------------------------------------------
(* The rider store: read-only for this core *)

\* table "riders"; riders 1 and 14 share a display name
riders ==
  { [id |-> 1,  rider_name |-> "J. Smith"], [id |-> 2,  rider_name |-> "B"],
    [id |-> 3,  rider_name |-> "C"],        [id |-> 4,  rider_name |-> "D"],
    [id |-> 5,  rider_name |-> "E"],        [id |-> 6,  rider_name |-> "F"],
    [id |-> 7,  rider_name |-> "G"],        [id |-> 8,  rider_name |-> "H"],
    [id |-> 9,  rider_name |-> "I"],        [id |-> 10, rider_name |-> "J"],
    [id |-> 11, rider_name |-> "K"],        [id |-> 12, rider_name |-> "L"],
    [id |-> 13, rider_name |-> "M"],        [id |-> 14, rider_name |-> "J. Smith"],
    [id |-> 15, rider_name |-> "O"] }

\* table "rider_prices": rider 15 has no price for the season
rider_prices ==
  { [rider_id |-> r, season_year |-> season, price |-> 900] : r \in (1..12) \cup {14} }
  \cup { [rider_id |-> 13, season_year |-> season, price |-> 1200] }

RiderById(id) == CHOOSE r \in riders : r.id = id

\* priceObj ? priceObj.price : 0
SeasonPrice(id) ==
  LET found == { p \in rider_prices : p.rider_id = id /\ p.season_year = season }
  IN  IF found = {} THEN 0 ELSE (CHOOSE p \in found : TRUE).price

\* one element of autocompleteRiders' result: the rider row with its price flattened
autocompleteRider(id) ==
  [id |-> id, rider_name |-> RiderById(id).rider_name, price |-> SeasonPrice(id)]

-----------------------------------------------------------------------------
(* TeamBuilder: the roster validator *)

Abs(n) == IF n < 0 THEN 0 - n ELSE n

\* faulty variant: the points are not counted when the price is absent
CostPriceOnly(r) == IF "price" \in DOMAIN r THEN r.price ELSE 0

\* r?.price ?? r?.points ?? 0
Cost(r) ==
  IF "price" \in DOMAIN r THEN r.price
  ELSE IF "points" \in DOMAIN r THEN r.points
  ELSE 0

RECURSIVE calcTotal(_)
calcTotal(rs) ==
  IF rs = <<>> THEN 0 ELSE calcTotal(SubSeq(rs, 1, Len(rs) - 1)) + Cost(rs[Len(rs)])

\* slots.filter(Boolean)
Filled(ss) == SelectSeq(ss, LAMBDA s : s # NULL)

total(ss) == calcTotal(Filled(ss))
remaining(ss) == BUDGET - total(ss)

IsSpace(ch) == ch = " "

\* String.prototype.trim on a string given as a sequence of characters
RECURSIVE trim(_)
trim(s) ==
  IF s = <<>> THEN s
  ELSE IF IsSpace(s[1]) THEN trim(Tail(s))
  ELSE IF IsSpace(s[Len(s)]) THEN trim(SubSeq(s, 1, Len(s) - 1))
  ELSE s

\* s?.rider_name: <<name>>, or <<>> for undefined
NameOf(s) == IF "rider_name" \in DOMAIN s THEN <<s.rider_name>> ELSE <<>>

\* r.id of a rider-like value; 0 stands for a missing (falsy) identifier
IdOf(r) == IF "id" \in DOMAIN r THEN r.id ELSE 0

\* the messages validate returns
MsgName == [text |-> "Team name is required."]
MsgPick == [text |-> "Please pick all riders."]
MsgUnique == [text |-> "Each rider must be unique."]
MsgBudget(n) == [text |-> "Budget exceeded by", amount |-> n]

\* faulty variant: the budget is checked before the names
validateBudgetFirst(name, ss) ==
  LET names == [i \in 1..Len(ss) |-> NameOf(ss[i])]
      unique == { names[i] : i \in 1..Len(ss) }
  IN  IF Len(trim(name)) < 2 THEN MsgName
      ELSE IF \E i \in 1..Len(ss) : ss[i] = NULL THEN MsgPick
      ELSE IF total(ss) > BUDGET THEN MsgBudget(Abs(remaining(ss)))
      ELSE IF Cardinality(unique) # Len(names) THEN MsgUnique
      ELSE NULL

\* faulty variant: the riders are told apart by their identifiers
validateUniqueById(name, ss) ==
  LET ids == [i \in 1..Len(ss) |-> IF ss[i] = NULL THEN <<>> ELSE <<IdOf(ss[i])>>]
      unique == { ids[i] : i \in 1..Len(ss) }
  IN  IF Len(trim(name)) < 2 THEN MsgName
      ELSE IF \E i \in 1..Len(ss) : ss[i] = NULL THEN MsgPick
      ELSE IF Cardinality(unique) # Len(ids) THEN MsgUnique
      ELSE IF total(ss) > BUDGET THEN MsgBudget(Abs(remaining(ss)))
      ELSE NULL

\* faulty variant: the empty slots are looked for after the shared names
validatePickAfterUnique(name, ss) ==
  LET names == [i \in 1..Len(ss) |-> NameOf(ss[i])]
      unique == { names[i] : i \in 1..Len(ss) }
  IN  IF Len(trim(name)) < 2 THEN MsgName
      ELSE IF Cardinality(unique) # Len(names) THEN MsgUnique
      ELSE IF \E i \in 1..Len(ss) : ss[i] = NULL THEN MsgPick
      ELSE IF total(ss) > BUDGET THEN MsgBudget(Abs(remaining(ss)))
      ELSE NULL

validate(name, ss) ==
  LET names == [i \in 1..Len(ss) |-> NameOf(ss[i])]
      unique == { names[i] : i \in 1..Len(ss) }
  IN  IF Len(trim(name)) < 2 THEN MsgName
      ELSE IF \E i \in 1..Len(ss) : ss[i] = NULL THEN MsgPick
      ELSE IF Cardinality(unique) # Len(names) THEN MsgUnique
      ELSE IF total(ss) > BUDGET THEN MsgBudget(Abs(remaining(ss)))
      ELSE NULL

\* faulty variant: the team name is sent as typed
SubmitPayloadUntrimmed(name, ss) ==
  [teamName |-> name,
   riders |-> [i \in 1..Len(ss) |-> [id |-> IdOf(ss[i]), rider_name |-> ss[i].rider_name]]]

\* the payload the submit button builds
SubmitPayload(name, ss) ==
  [teamName |-> trim(name),
   riders |-> [i \in 1..Len(ss) |-> [id |-> IdOf(ss[i]), rider_name |-> ss[i].rider_name]]]

-----------------------------------------------------------------------------
(* Inputs *)

\* the rosters tried on the validator: twelve picked riders, the leading
\* MaxVaried slots replaced by every choice below
BaseRoster == [i \in 1..DEFAULT_SLOTS |-> autocompleteRider(i)]

VariedChoices ==
  { NULL, autocompleteRider(1), autocompleteRider(2), autocompleteRider(13),
    autocompleteRider(14), autocompleteRider(15),
    [id |-> 15, rider_name |-> "O", points |-> 1200],   \* no price: points count
    [rider_name |-> "P"] }                              \* no id, no price, no points

VariedRosters ==
  { [i \in 1..DEFAULT_SLOTS |-> IF i <= MaxVaried THEN v[i] ELSE BaseRoster[i]] :
      v \in [1..MaxVaried -> VariedChoices] }

Chars == {" ", "a"}

\* a name that trim shortens and that stays long enough
PaddedName == <<" ", "a", "a", "a">>

\* the team names typed: every string of at most MaxNameLen characters, and
\* the padded one
TeamNames == UNION { [1..n -> Chars] : n \in 0..MaxNameLen } \cup {PaddedName}

\* the form the page holds in Spec: a legal roster, other than the legal
\* payload below
RosterB == [i \in 1..DEFAULT_SLOTS |->
              IF i = DEFAULT_SLOTS THEN autocompleteRider(15)
              ELSE autocompleteRider(DEFAULT_SLOTS + 1 - i)]
RosterOver == [BaseRoster EXCEPT ![3] = autocompleteRider(13)]

PageForm == [teamName |-> PaddedName, slots |-> RosterB]

\* the payloads handed to createMyTeam without the validator: a legal one,
\* one over budget, one whose missing identifier resolves by name and whose
\* fourth entry repeats the third, one whose missing identifier does not
\* resolve (the name is shared by two riders)
PayloadA == SubmitPayload(<<"a", "a">>, BaseRoster)
PayloadOver == SubmitPayload(<<"a", "a">>, RosterOver)
PayloadByName ==
  [PayloadA EXCEPT !.riders[2].id = 0, !.riders[4] = PayloadA.riders[3]]
PayloadUnresolved ==
  [PayloadA EXCEPT !.riders[1].id = 0]

RawPayloads == { PayloadA, PayloadOver, PayloadByName, PayloadUnresolved }

\* who calls createMyTeam directly with what: the first user with every
\* payload, the second user with the legal one (further users sign in on
\* the page)
DirectInputs ==
  { <<u, p>> \in Users \X RawPayloads : u = 1 \/ (u = 2 /\ p = PayloadA) }

-----------------------------------------------------------------------------
(* The store *)

\* rows of "teams" for a user and season
TeamsOf(u) == { t \in teams : t.user_id = u /\ t.season_year = season }

\* rows of "team_riders" of a team
SlotsOf(teamId) == { tr \in team_riders : tr.team_id = teamId }

\* the uniqueness constraint of "teams" on (user_id, season_year): an insert
\* for a user who has a team of the season is rejected
UniqueViolation(u) == TeamsOf(u) # {}

\* team_riders.rider_id must name a rider: a row without one is rejected and
\* with it the whole insert
RiderIdViolation(rows) == \E i \in 1..Len(rows) : rows[i].rider_id = 0

\* the error objects createMyTeam throws
ErrUnique == "TeamAlreadyExists"       \* the store's conflict on the teams insert
ErrRiderId == "UnresolvedRider"        \* the store's rejection of a missing rider_id
ErrFault == "StorageUnavailable"       \* any other failure of the request

-----------------------------------------------------------------------------
(* Initial states *)

InitStore ==
  /\ teams = {}
  /\ team_riders = {}
  /\ nextTeamId = 1

InitCalls ==
  /\ callPc = [k \in Calls |-> "idle"]
  /\ userId = [k \in Calls |-> 0]
  /\ payload = [k \in Calls |-> NULL]
  /\ team = [k \in Calls |-> NULL]
  /\ riderInserts = [k \in Calls |-> <<>>]
  /\ idx = [k \in Calls |-> 0]
  /\ result = [k \in Calls |-> "pending"]

\* no verify-code request yet, no user
InitLogin ==
  /\ users = {}
  /\ nextUserId = 1
  /\ reqPc = [r \in Requests |-> "idle"]
  /\ accessCode = [r \in Requests |-> <<>>]
  /\ codeRow = [r \in Requests |-> NULL]
  /\ response = [r \in Requests |-> NULL]

\* the page as constructed, without a saved token, its form filled in with
\* a legal roster (of onClick only the submit branch can then run)
Init ==
  /\ InitStore
  /\ InitCalls
  /\ InitLogin
  /\ token = 0
  /\ pagePc = "anon"
  /\ teamName = PageForm.teamName
  /\ slots = PageForm.slots
  /\ error = NULL
  /\ pageTeam = NULL
  /\ pageError = NULL
  /\ readRow = NULL
  /\ pageCall = 0

\* the validator's inputs: the page of the first user, signed in and
\* showing the builder
InitValidate ==
  /\ InitStore
  /\ InitCalls
  /\ InitLogin
  /\ token = 1
  /\ pagePc = "builder"
  /\ teamName \in TeamNames
  /\ slots \in VariedRosters
  /\ error = NULL
  /\ pageTeam = NULL
  /\ pageError = NULL
  /\ readRow = NULL
  /\ pageCall = 0

-----------------------------------------------------------------------------
(* TeamBuilder *)

setTeamName(name) ==
  /\ pagePc = "builder"
  /\ teamName' = name
  /\ UNCHANGED <<slots, error>>
  /\ UNCHANGED <<storeVars, pageVars, callVars>>
  /\ UNCHANGED loginVars

\* index is 1-based here
setSlot(index, rider) ==
  /\ pagePc = "builder"
  /\ slots' = [slots EXCEPT ![index] = rider]
  /\ UNCHANGED <<teamName, error>>
  /\ UNCHANGED <<storeVars, pageVars, callVars>>
  /\ UNCHANGED loginVars

\* the call a new invocation of createMyTeam runs as
FreeCall == CHOOSE k \in Calls : callPc[k] = "idle" /\ \A j \in Calls : callPc[j] = "idle" => k <= j

\* createMyTeam up to its first await: the token is read, the teams insert is sent
StartCall(k, u, p) ==
  /\ callPc' = [callPc EXCEPT ![k] = "insertTeam"]
  /\ userId' = [userId EXCEPT ![k] = u]
  /\ payload' = [payload EXCEPT ![k] = p]
  /\ UNCHANGED <<team, riderInserts, idx, result>>

\* the button's onClick when validate returns a message
ClickInvalid ==
  /\ pagePc = "builder"
  /\ validate(teamName, slots) # NULL
  /\ error' = validate(teamName, slots)
  /\ UNCHANGED <<teamName, slots>>
  /\ UNCHANGED <<storeVars, pageVars, callVars>>
  /\ UNCHANGED loginVars

\* the button's onClick when validate returns null: MyTeamPage's onSubmit
\* runs and calls createMyTeam with the payload
ClickSubmit ==
  /\ pagePc = "builder"
  /\ validate(teamName, slots) = NULL
  /\ \E k \in Calls : callPc[k] = "idle"
  /\ error' = NULL
  /\ pageError' = NULL
  /\ pagePc' = "creating"
  /\ pageCall' = FreeCall
  /\ StartCall(FreeCall, token, SubmitPayload(teamName, slots))
  /\ UNCHANGED <<teamName, slots, token, pageTeam, readRow>>
  /\ UNCHANGED storeVars
  /\ UNCHANGED loginVars

onClick == ClickInvalid \/ ClickSubmit

-----------------------------------------------------------------------------
(* createMyTeam *)

\* a call made without the page: any signed-in user, any payload
DirectCall(u, p) ==
  /\ \E k \in Calls : callPc[k] = "idle"
  /\ StartCall(FreeCall, u, p)
  /\ UNCHANGED <<storeVars, formVars, pageVars>>
  /\ UNCHANGED loginVars

\* the row the teams insert writes and returns
NewTeamRow(id, u, p) ==
  [id |-> id, user_id |-> u, team_name |-> p.teamName, season_year |-> season,
   total_cost |-> 0, points |-> 0]

\* faulty variant: the rows are tied to the first team of the store, not to the
\* team just inserted
MapRiderInsertsFirstTeam(teamId, p) ==
  [i \in 1..Len(p.riders) |->
     [team_id |-> 1, rider_id |-> p.riders[i].id, slot |-> i]]

\* faulty variant: the slot is the index of the entry, counted from 0
MapRiderInsertsByIndex(teamId, p) ==
  [i \in 1..Len(p.riders) |->
     [team_id |-> teamId, rider_id |-> p.riders[i].id, slot |-> i - 1]]

\* payload.riders.map((r, idx) => ({ team_id, rider_id: r.id, slot: idx + 1 }))
MapRiderInserts(teamId, p) ==
  [i \in 1..Len(p.riders) |->
     [team_id |-> teamId, rider_id |-> p.riders[i].id, slot |-> i]]

\* the first index from i on whose row has no rider_id, or 0: where the
\* lookup loop next awaits
NextMissing(rows, i) ==
  LET missing == { j \in i..Len(rows) : rows[j].rider_id = 0 }
  IN  IF missing = {} THEN 0 ELSE CHOOSE j \in missing : \A m \in missing : j <= m

\* the call runs on to its next request: a lookup, or the team_riders insert
Advance(k, rows, i) ==
  /\ riderInserts' = [riderInserts EXCEPT ![k] = rows]
  /\ idx' = [idx EXCEPT ![k] = NextMissing(rows, i)]
  /\ callPc' = [callPc EXCEPT ![k] = IF NextMissing(rows, i) = 0 THEN "insertRiders" ELSE "lookup"]

\* faulty variant: a generic error is thrown in place of the store's
ThrowGeneric(k, err) ==
  /\ callPc' = [callPc EXCEPT ![k] = "failed"]
  /\ result' = [result EXCEPT ![k] = "Error"]
  /\ riderInserts' = [riderInserts EXCEPT ![k] = <<>>]
  /\ idx' = [idx EXCEPT ![k] = 0]

\* createMyTeam throws the error of the store
Throw(k, err) ==
  /\ callPc' = [callPc EXCEPT ![k] = "failed"]
  /\ result' = [result EXCEPT ![k] = err]
  /\ riderInserts' = [riderInserts EXCEPT ![k] = <<>>]
  /\ idx' = [idx EXCEPT ![k] = 0]

\* the teams insert succeeds
InsertTeamOk(k) ==
  /\ callPc[k] = "insertTeam"
  /\ ~UniqueViolation(userId[k])
  /\ teams' = teams \cup {NewTeamRow(nextTeamId, userId[k], payload[k])}
  /\ nextTeamId' = nextTeamId + 1
  /\ team' = [team EXCEPT ![k] = NewTeamRow(nextTeamId, userId[k], payload[k])]
  /\ Advance(k, MapRiderInserts(nextTeamId, payload[k]), 1)
  /\ UNCHANGED <<team_riders, userId, payload, result>>
  /\ UNCHANGED <<formVars, pageVars>>
  /\ UNCHANGED loginVars

\* faulty variant: teamErr is not thrown on a conflict; the call goes on with the
\* team the user has
InsertTeamConflictIgnored(k) ==
  /\ callPc[k] = "insertTeam"
  /\ UniqueViolation(userId[k])
  /\ LET existing == CHOOSE t \in TeamsOf(userId[k]) : TRUE
     IN  /\ team' = [team EXCEPT ![k] = existing]
         /\ Advance(k, MapRiderInserts(existing.id, payload[k]), 1)
  /\ UNCHANGED <<userId, payload, result>>
  /\ UNCHANGED <<storeVars, formVars, pageVars>>
  /\ UNCHANGED loginVars

\* the teams insert is rejected by the uniqueness constraint: teamErr is thrown
InsertTeamConflict(k) ==
  /\ callPc[k] = "insertTeam"
  /\ UniqueViolation(userId[k])
  /\ Throw(k, ErrUnique)
  /\ UNCHANGED <<userId, payload, team>>
  /\ UNCHANGED <<storeVars, formVars, pageVars>>
  /\ UNCHANGED loginVars

\* the teams insert fails otherwise: teamErr is thrown
InsertTeamFault(k) ==
  /\ callPc[k] = "insertTeam"
  /\ Throw(k, ErrFault)
  /\ UNCHANGED <<userId, payload, team>>
  /\ UNCHANGED <<storeVars, formVars, pageVars>>
  /\ UNCHANGED loginVars

\* .from("riders").select("id").eq("rider_name", name).maybeSingle(): the row
\* when exactly one rider has the name, else null
LookupByName(name) ==
  LET found == { r \in riders : r.rider_name = name }
  IN  IF Cardinality(found) = 1 THEN CHOOSE r \in found : TRUE ELSE NULL

\* one round of the lookup loop: the answer for entry idx arrives
LookupRider(k) ==
  /\ callPc[k] = "lookup"
  /\ LET i == idx[k]
         r == LookupByName(payload[k].riders[i].rider_name)
         rows == IF r # NULL
                 THEN [riderInserts[k] EXCEPT ![i].rider_id = r.id]
                 ELSE riderInserts[k]
     IN  Advance(k, rows, i + 1)
  /\ UNCHANGED <<userId, payload, team, result>>
  /\ UNCHANGED <<storeVars, formVars, pageVars>>
  /\ UNCHANGED loginVars

\* the lookup request fails: its error is not read, data is null
LookupFault(k) ==
  /\ callPc[k] = "lookup"
  /\ Advance(k, riderInserts[k], idx[k] + 1)
  /\ UNCHANGED <<userId, payload, team, result>>
  /\ UNCHANGED <<storeVars, formVars, pageVars>>
  /\ UNCHANGED loginVars

\* the rows of one insert into team_riders, as a set
RowSet(rows) == { rows[i] : i \in 1..Len(rows) }

\* the team_riders insert succeeds: all rows are written, the team is returned
InsertRidersOk(k) ==
  /\ callPc[k] = "insertRiders"
  /\ ~RiderIdViolation(riderInserts[k])
  /\ team_riders' = team_riders \cup RowSet(riderInserts[k])
  /\ callPc' = [callPc EXCEPT ![k] = "done"]
  /\ result' = [result EXCEPT ![k] = "ok"]
  /\ riderInserts' = [riderInserts EXCEPT ![k] = <<>>]
  /\ idx' = [idx EXCEPT ![k] = 0]
  /\ UNCHANGED <<teams, nextTeamId, userId, payload, team>>
  /\ UNCHANGED <<formVars, pageVars>>
  /\ UNCHANGED loginVars

\* the team_riders insert is rejected for a missing rider_id: ridersErr is
\* thrown, no row is written, the team row stays
InsertRidersRejected(k) ==
  /\ callPc[k] = "insertRiders"
  /\ RiderIdViolation(riderInserts[k])
  /\ Throw(k, ErrRiderId)
  /\ UNCHANGED <<userId, payload, team>>
  /\ UNCHANGED <<storeVars, formVars, pageVars>>
  /\ UNCHANGED loginVars

\* the team_riders insert fails otherwise: ridersErr is thrown, the team row stays
InsertRidersFault(k) ==
  /\ callPc[k] = "insertRiders"
  /\ Throw(k, ErrFault)
  /\ UNCHANGED <<userId, payload, team>>
  /\ UNCHANGED <<storeVars, formVars, pageVars>>
  /\ UNCHANGED loginVars

createMyTeam(k) ==
  \/ InsertTeamOk(k)
  \/ InsertTeamConflict(k)
  \/ InsertTeamFault(k)
  \/ LookupRider(k)
  \/ LookupFault(k)
  \/ InsertRidersOk(k)
  \/ InsertRidersRejected(k)
  \/ InsertRidersFault(k)

-----------------------------------------------------------------------------
(* MyTeamPage and getMyTeam *)

\* the access code form's onSubmit succeeds: the token is stored and the
\* effect on `authed` starts loadAuthed, whose getMyTeam sends its first read
Login(u) ==
  /\ pagePc = "anon"
  /\ token' = u
  /\ pagePc' = "load"
  /\ pageError' = NULL
  /\ UNCHANGED <<pageTeam, readRow, pageCall>>
  /\ UNCHANGED <<storeVars, formVars, callVars>>
  /\ UNCHANGED loginVars

\* setTeam(nextTeam) and the view that follows
ShowTeam(t) ==
  /\ pageTeam' = t
  /\ pagePc' = IF t = NULL THEN "builder" ELSE "summary"
  /\ readRow' = NULL

\* getMyTeam's read of "teams" with maybeSingle: no row gives null and the
\* builder is shown; one row is kept and the read of "team_riders" is sent
LoadTeam ==
  /\ pagePc = "load"
  /\ Cardinality(TeamsOf(token)) <= 1
  /\ IF TeamsOf(token) = {}
     THEN ShowTeam(NULL)
     ELSE /\ readRow' = CHOOSE t \in TeamsOf(token) : TRUE
          /\ pagePc' = "loadRiders"
          /\ UNCHANGED pageTeam
  /\ UNCHANGED <<token, pageError, pageCall>>
  /\ UNCHANGED <<storeVars, formVars, callVars>>
  /\ UNCHANGED loginVars

\* the read fails (or finds several rows): getMyTeam throws, allSettled
\* turns that into nextTeam = null
LoadTeamFault ==
  /\ pagePc = "load"
  /\ ShowTeam(NULL)
  /\ UNCHANGED <<token, pageError, pageCall>>
  /\ UNCHANGED <<storeVars, formVars, callVars>>
  /\ UNCHANGED loginVars

\* table "rider_points"
rider_points == { [rider_id |-> 1, season_year |-> season, points |-> 50] }

\* pointsObj ? pointsObj.points : 0
SeasonPoints(id) ==
  LET found == { p \in rider_points : p.rider_id = id /\ p.season_year = season }
  IN  IF found = {} THEN 0 ELSE (CHOOSE p \in found : TRUE).points

\* one element of the riders array getMyTeam returns (the display-only
\* columns team_name, nationality, active are left out)
FormatRider(tr) ==
  [id |-> tr.rider_id, rider_name |-> RiderById(tr.rider_id).rider_name,
   price |-> SeasonPrice(tr.rider_id), points |-> SeasonPoints(tr.rider_id)]

\* the rows of a team by slot number
BySlot(rows) ==
  [i \in 1..Cardinality(rows) |-> CHOOSE tr \in rows : tr.slot = i]

\* the select of team_riders has no order clause: the store may start its
\* scan at any row; the model lets it start at the first or at the middle one
ScanStarts == {0, DEFAULT_SLOTS \div 2}

Rotate(seq, r) ==
  [i \in 1..Len(seq) |-> seq[((i - 1 + r) % Len(seq)) + 1]]

\* what getMyTeam returns for the team row and the team_riders rows read
FormatTeam(row, rows) ==
  [id |-> row.id, teamName |-> row.team_name, totalPrice |-> row.total_cost,
   points |-> row.points,
   riders |-> [i \in 1..Len(rows) |-> FormatRider(rows[i])]]

\* getMyTeam's read of "team_riders" and its return; loadAuthed shows the team
LoadRiders ==
  /\ pagePc = "loadRiders"
  /\ \E r \in ScanStarts :
       ShowTeam(FormatTeam(readRow, Rotate(BySlot(SlotsOf(readRow.id)), r)))
  /\ UNCHANGED <<token, pageError, pageCall>>
  /\ UNCHANGED <<storeVars, formVars, callVars>>
  /\ UNCHANGED loginVars

\* the read fails: its error is not read, teamRiders || [] is empty
LoadRidersFault ==
  /\ pagePc = "loadRiders"
  /\ ShowTeam(FormatTeam(readRow, <<>>))
  /\ UNCHANGED <<token, pageError, pageCall>>
  /\ UNCHANGED <<storeVars, formVars, callVars>>
  /\ UNCHANGED loginVars

\* onSubmit after createMyTeam returned: loadAuthed
SubmitReturn ==
  /\ pagePc = "creating"
  /\ callPc[pageCall] = "done"
  /\ pagePc' = "load"
  /\ pageCall' = 0
  /\ UNCHANGED <<token, pageTeam, pageError, readRow>>
  /\ UNCHANGED <<storeVars, formVars, callVars>>
  /\ UNCHANGED loginVars

\* onSubmit's catch: the error message is shown under the builder
SubmitThrow ==
  /\ pagePc = "creating"
  /\ callPc[pageCall] = "failed"
  /\ pageError' = result[pageCall]
  /\ pagePc' = "builder"
  /\ pageCall' = 0
  /\ UNCHANGED <<token, pageTeam, readRow>>
  /\ UNCHANGED <<storeVars, formVars, callVars>>
  /\ UNCHANGED loginVars

\* TeamSummary's onLogout
Logout ==
  /\ pagePc = "summary"
  /\ token' = 0
  /\ pageTeam' = NULL
  /\ pagePc' = "anon"
  /\ UNCHANGED <<pageError, readRow, pageCall>>
  /\ UNCHANGED <<storeVars, formVars, callVars>>
  /\ UNCHANGED loginVars

-----------------------------------------------------------------------------
(* verify-code: the login handler (a serverless function, one run per     *)
(* request, the runs sharing the store; its environment holds the store's *)
(* credentials and the JWT secret)                                        *)

\* table "access_codes": an active code and an inactive one
access_codes ==
  { [id |-> 1, code |-> <<"a">>, is_active |-> TRUE],
    [id |-> 2, code |-> <<"b">>, is_active |-> FALSE] }

\* what requests carry as accessCode: nothing (undefined and the empty
\* string alike are <<>>), blanks, the active code plain and padded, the
\* inactive code, an unknown code
AccessCodeInputs ==
  { <<>>, <<" ">>, <<"a">>, <<" ", "a">>, <<"b">>, <<"c">> }

Methods == {"POST", "GET"}

\* res.status(n).json(...): sub is the subject of the token sent, 0 without one
Respond(r, status, err, sub) ==
  /\ reqPc' = [reqPc EXCEPT ![r] = "responded"]
  /\ response' = [response EXCEPT ![r] = [status |-> status, error |-> err, sub |-> sub]]

\* the handler up to its first await
Receive(r, method, code) ==
  /\ reqPc[r] = "idle"
  /\ \A q \in Requests : q < r => reqPc[q] # "idle"
  /\ accessCode' = [accessCode EXCEPT ![r] = code]
  /\ IF method # "POST" THEN Respond(r, 405, "Method not allowed", 0)
     ELSE IF code = <<>> THEN Respond(r, 400, "Access code is required", 0)
     ELSE reqPc' = [reqPc EXCEPT ![r] = "readCode"] /\ UNCHANGED response
  /\ UNCHANGED <<users, nextUserId, codeRow>>
  /\ UNCHANGED <<storeVars, formVars, pageVars, callVars>>

\* access_codes .eq("code", accessCode.trim()).maybeSingle()
CodeRowOf(code) ==
  LET found == { c \in access_codes : c.code = trim(code) }
  IN  IF found = {} THEN NULL ELSE CHOOSE c \in found : TRUE

\* the access code is read: 401 unless it exists and is active
ReadCode(r) ==
  /\ reqPc[r] = "readCode"
  /\ LET row == CodeRowOf(accessCode[r])
     IN  IF row = NULL \/ ~row.is_active
         THEN Respond(r, 401, "Invalid access code", 0) /\ UNCHANGED codeRow
         ELSE /\ codeRow' = [codeRow EXCEPT ![r] = row]
              /\ reqPc' = [reqPc EXCEPT ![r] = "findUser"]
              /\ UNCHANGED response
  /\ UNCHANGED <<users, nextUserId, accessCode>>
  /\ UNCHANGED <<storeVars, formVars, pageVars, callVars>>

\* the read of access_codes fails: codeErr
ReadCodeFault(r) ==
  /\ reqPc[r] = "readCode"
  /\ Respond(r, 500, "Database error", 0)
  /\ UNCHANGED <<users, nextUserId, accessCode, codeRow>>
  /\ UNCHANGED <<storeVars, formVars, pageVars, callVars>>

\* rows of "users" for an access code
UsersOf(codeId) == { u \in users : u.access_code_id = codeId }

\* the user of the code is looked up with maybeSingle: several rows are an
\* error, one row is the user and the token is signed for it, none leads
\* to the insert
FindUser(r) ==
  /\ reqPc[r] = "findUser"
  /\ LET found == UsersOf(codeRow[r].id)
     IN  IF Cardinality(found) > 1
         THEN Respond(r, 500, "Database error (user lookup)", 0)
         ELSE IF found = {}
         THEN reqPc' = [reqPc EXCEPT ![r] = "createUser"] /\ UNCHANGED response
         ELSE Respond(r, 200, "", (CHOOSE u \in found : TRUE).id)
  /\ UNCHANGED <<users, nextUserId, accessCode, codeRow>>
  /\ UNCHANGED <<storeVars, formVars, pageVars, callVars>>

\* the lookup fails: userLookupErr
FindUserFault(r) ==
  /\ reqPc[r] = "findUser"
  /\ Respond(r, 500, "Database error (user lookup)", 0)
  /\ UNCHANGED <<users, nextUserId, accessCode, codeRow>>
  /\ UNCHANGED <<storeVars, formVars, pageVars, callVars>>

\* the user is inserted and the token is signed for the new row
CreateUser(r) ==
  /\ reqPc[r] = "createUser"
  /\ users' = users \cup { [id |-> nextUserId, access_code_id |-> codeRow[r].id,
                            display_name |-> trim(accessCode[r])] }
  /\ nextUserId' = nextUserId + 1
  /\ Respond(r, 200, "", nextUserId)
  /\ UNCHANGED <<accessCode, codeRow>>
  /\ UNCHANGED <<storeVars, formVars, pageVars, callVars>>

\* the insert fails: createErr
CreateUserFault(r) ==
  /\ reqPc[r] = "createUser"
  /\ Respond(r, 500, "Failed to create user", 0)
  /\ UNCHANGED <<users, nextUserId, accessCode, codeRow>>
  /\ UNCHANGED <<storeVars, formVars, pageVars, callVars>>

handler(r) ==
  \/ ReadCode(r)
  \/ ReadCodeFault(r)
  \/ FindUser(r)
  \/ FindUserFault(r)
  \/ CreateUser(r)
  \/ CreateUserFault(r)

-----------------------------------------------------------------------------
(* Specifications *)

Next ==
  \/ \E u \in Users : Login(u)
  \/ LoadTeam
  \/ LoadTeamFault
  \/ LoadRiders
  \/ LoadRidersFault
  \/ ClickSubmit
  \/ SubmitReturn
  \/ SubmitThrow
  \/ Logout
  \/ \E in \in DirectInputs : DirectCall(in[1], in[2])
  \/ \E k \in Calls : createMyTeam(k)

Spec == Init /\ [][Next]_vars

\* the validator on its own: the form is edited and submitted
NextValidate ==
  \/ \E name \in TeamNames : setTeamName(name)
  \/ \E index \in 1..MaxVaried, rider \in VariedChoices : setSlot(index, rider)
  \/ onClick

SpecValidate == InitValidate /\ [][NextValidate]_vars

\* the login handler on its own: requests arrive and run interleaved
NextLogin ==
  \/ \E r \in Requests, method \in Methods, code \in AccessCodeInputs : Receive(r, method, code)
  \/ \E r \in Requests : handler(r)

SpecLogin == Init /\ [][NextLogin]_vars

-----------------------------------------------------------------------------
(* Vocabulary of the properties *)

Finished(k) == callPc[k] \in {"done", "failed"}

\* the call inserted a team row
Wrote(k) == team[k] # NULL

\* the team row a call inserted is in the store
TeamRowStored(k) == \E t \in teams : t.id = team[k].id

RiderIds == { r.id : r \in riders }

\* the form a payload with identifiers stands for: its riders as picked
FormOf(p) == [i \in 1..Len(p.riders) |-> autocompleteRider(p.riders[i].id)]

\* the payload is what the builder submits for a roster that passes validate
ValidPayload(p) ==
  /\ \A i \in 1..Len(p.riders) : p.riders[i].id \in RiderIds
  /\ validate(p.teamName, FormOf(p)) = NULL
  /\ SubmitPayload(p.teamName, FormOf(p)) = p

\* the sum of the season prices of the riders of a set of roster rows
RECURSIVE PriceSum(_)
PriceSum(rows) ==
  IF rows = {} THEN 0
  ELSE LET tr == CHOOSE x \in rows : TRUE
       IN  SeasonPrice(tr.rider_id) + PriceSum(rows \ {tr})

\* the roster rows a payload stands for when every entry carries its identifier
RowsOfPayload(teamId, p) ==
  { [team_id |-> teamId, rider_id |-> p.riders[i].id, slot |-> i] : i \in 1..Len(p.riders) }

-----------------------------------------------------------------------------
(* C1: a createTeam attempt that fails after it started writing leaves no *)
(* Team row and no RosterSlot row of the attempt in the store.            *)
C1_AbortLeavesNothing ==
  \A k \in Calls :
    (callPc[k] = "failed" /\ Wrote(k)) =>
      /\ TeamsOf(userId[k]) = {}
      /\ SlotsOf(team[k].id) = {}

-----------------------------------------------------------------------------
\* two finished calls of one user, the only calls of that user, with
\* different legal rosters
RacePair(j, k) ==
  /\ j # k
  /\ Finished(j) /\ Finished(k)
  /\ userId[j] = userId[k]
  /\ ValidPayload(payload[j]) /\ ValidPayload(payload[k])
  /\ payload[j].riders # payload[k].riders
  /\ \A l \in Calls \ {j, k} : callPc[l] = "idle" \/ userId[l] # userId[j]

\* w committed its roster and l was rejected as a conflict without writing
WinnerAndLoser(w, l) ==
  /\ result[w] = "ok"
  /\ result[l] = ErrUnique
  /\ ~Wrote(l)
  /\ TeamsOf(userId[w]) = {team[w]}
  /\ SlotsOf(team[w].id) = RowsOfPayload(team[w].id, payload[w])

NoFault(k) == result[k] # ErrFault

-----------------------------------------------------------------------------
\* the store holds at most one team per user and season
AtMostOneTeam == \A u \in Users : Cardinality(TeamsOf(u)) <= 1

\* the teams insert of call k is answered in this step while its user has
\* a team of the season
AnsweredWithTeam(k) ==
  /\ callPc[k] = "insertTeam"
  /\ callPc'[k] # "insertTeam"
  /\ TeamsOf(userId[k]) # {}

\* call k fails with one of errs and the store is left as it was
RejectedWith(k, errs) ==
  /\ callPc'[k] = "failed"
  /\ result'[k] \in errs
  /\ ~Wrote(k)'
  /\ teams' = teams
  /\ team_riders' = team_riders

(* C3 as stated: at most one Team per (user, season) in every state, and  *)
(* a createTeam of a user who has a Team fails with TeamAlreadyExists and *)
(* adds no Team row and no RosterSlot row.                                *)
C3_SecondTeamAsStated ==
  /\ []AtMostOneTeam
  /\ [][\A k \in Calls : AnsweredWithTeam(k) => RejectedWith(k, {ErrUnique})]_vars

(* C3 amended: at most one Team per (user, season) in every state, and a  *)
(* createTeam of a user who has a Team fails, with TeamAlreadyExists when *)
(* the store answers the insert and with StorageUnavailable when the      *)
(* request itself fails, and adds no Team row and no RosterSlot row.      *)
C3_SecondTeamRejected ==
  /\ []AtMostOneTeam
  /\ [][\A k \in Calls : AnsweredWithTeam(k) => RejectedWith(k, {ErrUnique, ErrFault})]_vars

\* an attempt of a user whose earlier attempt had written a team was
\* rejected as a conflict, and the store holds that one team only
C3_Witness ==
  \E j, k \in Calls :
    /\ j # k
    /\ userId[j] = userId[k]
    /\ Wrote(j) /\ Finished(j)
    /\ result[k] = ErrUnique
    /\ TeamsOf(userId[k]) = {team[j]}

-----------------------------------------------------------------------------
(* C4: createTeam checks the budget itself: a payload whose rider prices  *)
(* sum to more than the ceiling is rejected with BudgetExceeded and       *)
(* nothing of it is stored, so the riders of every stored team cost at    *)
(* most the ceiling.  (A call whose request met a storage fault is left   *)
(* aside: it ends with that fault.)                                       *)
C4_BudgetRechecked ==
  /\ \A t \in teams : PriceSum(SlotsOf(t.id)) <= BUDGET
  /\ \A k \in Calls :
       (/\ Finished(k) /\ NoFault(k)
        /\ PriceSum(RowsOfPayload(0, payload[k])) > BUDGET) =>
          /\ result[k] = "BudgetExceeded"
          /\ ~Wrote(k)

-----------------------------------------------------------------------------
(* C5: every Team row of the store, in every state, has exactly N roster  *)
(* rows, numbered 1..N, naming N different riders.                        *)
C5_TeamsAreComplete ==
  \A t \in teams :
    /\ Cardinality(SlotsOf(t.id)) = DEFAULT_SLOTS
    /\ { tr.slot : tr \in SlotsOf(t.id) } = 1..DEFAULT_SLOTS
    /\ Cardinality({ tr.rider_id : tr \in SlotsOf(t.id) }) = DEFAULT_SLOTS

-----------------------------------------------------------------------------
(* C6: when an entry is still unresolved after the name lookups,          *)
(* createTeam fails with UnresolvedRider and neither a Team row nor a     *)
(* RosterSlot row of the attempt is in the store.                         *)
C6_UnresolvedWritesNothing ==
  \A k \in Calls :
    /\ (callPc[k] = "insertRiders" /\ RiderIdViolation(riderInserts[k])) =>
          ~TeamRowStored(k)
    /\ result[k] = ErrRiderId =>
          ~TeamRowStored(k) /\ SlotsOf(team[k].id) = {}

-----------------------------------------------------------------------------
\* the identifiers of a sequence of riders
IdsOf(rs) == [i \in 1..Len(rs) |-> rs[i].id]

\* getMyTeam returns in this step, reading the roster rows of the team of
\* call k after that call returned
ReadsBack(k) ==
  /\ pagePc = "loadRiders"
  /\ pagePc' = "summary"
  /\ callPc[k] = "done"
  /\ readRow.id = team[k].id

(* C7: a roster that passes validate and is stored by createTeam is read  *)
(* back by getMyTeam in the same slot order, with the same rider          *)
(* identifiers and with the total cost validate computed.                 *)
C7_RoundTrip ==
  [][\A k \in Calls :
       (ReadsBack(k) /\ ValidPayload(payload[k])) =>
          /\ IdsOf(pageTeam'.riders) = IdsOf(payload[k].riders)
          /\ pageTeam'.totalPrice = total(FormOf(payload[k]))]_vars

-----------------------------------------------------------------------------
\* the team of a call that returned
Committed(t) == \E k \in Calls : callPc[k] = "done" /\ team[k] = t

(* C8: once a team is committed, no step of any operation removes it or   *)
(* changes its roster rows.                                               *)
C8_RosterImmutable ==
  [][\A t \in teams :
       Committed(t) => /\ t \in teams'
                       /\ (SlotsOf(t.id))' = SlotsOf(t.id)]_vars

\* a committed team whose owner made another attempt that has ended, with
\* the committed roster still the one of the first attempt
C8_Witness ==
  \E j, k \in Calls :
    /\ callPc[j] = "done"
    /\ Finished(k) /\ k # j /\ userId[k] = userId[j]
    /\ \E t \in teams : t.id = team[j].id /\ Committed(t)
    /\ SlotsOf(team[j].id) = RowsOfPayload(team[j].id, payload[j])

-----------------------------------------------------------------------------
(* The validator's checks, stated on the form *)

\* the length of the name without its leading and trailing spaces
TrimmedLen(name) ==
  LET solid == { i \in 1..Len(name) : name[i] # " " }
  IN  IF solid = {} THEN 0
      ELSE (CHOOSE i \in solid : \A j \in solid : j <= i)
           - (CHOOSE i \in solid : \A j \in solid : i <= j) + 1

NameTooShort == TrimmedLen(teamName) < 2
SlotEmpty == \E i \in 1..Len(slots) : slots[i] = NULL
SharedName ==
  \E i, j \in 1..Len(slots) :
    /\ i < j
    /\ slots[i] # NULL /\ slots[j] # NULL
    /\ slots[i].rider_name = slots[j].rider_name

\* a rider's price, else its points, else 0
PriceElsePoints(r) ==
  IF r = NULL THEN 0
  ELSE IF "price" \in DOMAIN r THEN r.price
  ELSE IF "points" \in DOMAIN r THEN r.points
  ELSE 0

RECURSIVE SumFrom(_, _)
SumFrom(ss, i) == IF i > Len(ss) THEN 0 ELSE PriceElsePoints(ss[i]) + SumFrom(ss, i + 1)

SummedPrice == SumFrom(slots, 1)
OverBudget == SummedPrice > BUDGET

\* the error kind a message stands for
KindOf(msg) ==
  IF msg = NULL THEN "none"
  ELSE IF msg.text = "Team name is required." THEN "InvalidName"
  ELSE IF msg.text = "Please pick all riders." THEN "IncompleteRoster"
  ELSE IF msg.text = "Each rider must be unique." THEN "DuplicateRider"
  ELSE IF msg.text = "Budget exceeded by" THEN "BudgetExceeded"
  ELSE "other"

EarliestFailure ==
  IF NameTooShort THEN "InvalidName"
  ELSE IF SlotEmpty THEN "IncompleteRoster"
  ELSE IF SharedName THEN "DuplicateRider"
  ELSE IF OverBudget THEN "BudgetExceeded"
  ELSE "none"

(* C9: validate checks the name, the completeness, the distinct names and *)
(* the budget in this order and reports the earliest failing check; it    *)
(* succeeds, and the payload is submitted, exactly when no check fails.   *)
C9_ChecksInOrder ==
  [][onClick =>
       /\ KindOf(error') = EarliestFailure
       /\ (pagePc' = "creating") <=> (EarliestFailure = "none")]_vars

\* a click on a form with shared names and over budget reported the
\* shared names
C9_Witness ==
  /\ KindOf(error) = "DuplicateRider"
  /\ ~NameTooShort /\ ~SlotEmpty /\ SharedName /\ OverBudget

-----------------------------------------------------------------------------
\* every slot holds a rider and every rider costs 900 but n of them, which
\* cost 1200
PricedRoster(n) ==
  /\ ~SlotEmpty
  /\ \A i \in 1..Len(slots) : PriceElsePoints(slots[i]) \in {900, 1200}
  /\ Cardinality({ i \in 1..Len(slots) : PriceElsePoints(slots[i]) = 1200 }) = n

\* the two examples: twelve riders at 900 pass with 200 remaining, eleven at
\* 900 and one at 1200 fail by 100
Examples ==
  /\ (PricedRoster(0) /\ ~NameTooShort /\ ~SharedName) =>
        error' = NULL /\ remaining(slots) = 200
  /\ (PricedRoster(1) /\ ~NameTooShort /\ ~SharedName) =>
        error' = MsgBudget(100)

(* C10 as stated: every roster whose summed price (price, else points,    *)
(* else 0) exceeds the ceiling fails with BudgetExceeded carrying sum -   *)
(* ceiling; the two examples.                                             *)
C10_OverageAsStated ==
  [][onClick =>
       /\ OverBudget => error' = MsgBudget(SummedPrice - BUDGET)
       /\ Examples]_vars

(* C10 amended: every roster with a name of two characters or more, all   *)
(* slots filled and no shared display name whose summed price (price,     *)
(* else points, else 0) exceeds the ceiling fails with BudgetExceeded     *)
(* carrying sum - ceiling; the two examples.                              *)
C10_Overage ==
  [][onClick =>
       /\ (OverBudget /\ ~NameTooShort /\ ~SlotEmpty /\ ~SharedName) =>
             error' = MsgBudget(SummedPrice - BUDGET)
       /\ Examples]_vars

\* a click on a roster over budget only through a rider without a price
\* reported the overage
C10_Witness ==
  /\ error = MsgBudget(100)
  /\ SummedPrice = BUDGET + 100
  /\ \E i \in 1..Len(slots) : slots[i] # NULL /\ "price" \notin DOMAIN slots[i]

-----------------------------------------------------------------------------
\* two filled slots show the same name and carry different identifiers
SharedNameOtherIds ==
  \E i, j \in 1..Len(slots) :
    /\ i < j
    /\ slots[i] # NULL /\ slots[j] # NULL
    /\ slots[i].rider_name = slots[j].rider_name
    /\ IdOf(slots[i]) # IdOf(slots[j])

(* C11 as stated: every roster in which two slots share a display name    *)
(* fails with DuplicateRider, whatever the identifiers of the riders.     *)
C11_SharedNameAsStated ==
  [][(onClick /\ SharedName) => error' = MsgUnique]_vars

(* C11 amended: every roster with a name of two characters or more and    *)
(* all slots filled in which two slots share a display name fails with    *)
(* DuplicateRider, whatever the identifiers of the riders.                *)
C11_SharedName ==
  [][(onClick /\ ~NameTooShort /\ ~SlotEmpty /\ SharedName) =>
        error' = MsgUnique /\ pagePc' = pagePc]_vars

\* a click on a roster with two riders of one name and two identifiers
\* reported the shared name
C11_Witness ==
  /\ error = MsgUnique
  /\ ~NameTooShort /\ ~SlotEmpty /\ SharedNameOtherIds
  /\ pagePc = "builder"

-----------------------------------------------------------------------------
EmptySlots == { i \in 1..Len(slots) : slots[i] = NULL }

(* C12 as stated: every roster with at least one of its N slots empty     *)
(* fails with IncompleteRoster.                                           *)
C12_IncompleteAsStated ==
  [][(onClick /\ EmptySlots # {}) => error' = MsgPick]_vars

(* C12 amended: every roster with a name of two characters or more and at *)
(* least one of its N slots empty fails with IncompleteRoster.            *)
C12_Incomplete ==
  [][(onClick /\ ~NameTooShort /\ EmptySlots # {}) =>
        error' = MsgPick /\ pagePc' = pagePc]_vars

\* a click on a roster with two empty slots reported the incomplete roster
C12_Witness ==
  /\ error = MsgPick
  /\ ~NameTooShort
  /\ Cardinality(EmptySlots) = 2
  /\ pagePc = "builder"

-----------------------------------------------------------------------------
\* the identifiers of the riders shown under a name
IdsNamed(name) == { r.id : r \in { x \in riders : x.rider_name = name } }

\* the rider an entry of riderRefs stands for: its identifier when it has
\* one, else the one rider of its name, else none (0)
RiderOfEntry(entry) ==
  IF entry.id # 0 THEN entry.id
  ELSE IF Cardinality(IdsNamed(entry.rider_name)) = 1
       THEN CHOOSE id \in IdsNamed(entry.rider_name) : TRUE
       ELSE 0

\* the rows createTeam is to write for a payload
RowsInOrder(teamId, p) ==
  { [team_id |-> teamId, rider_id |-> RiderOfEntry(p.riders[i]), slot |-> i] :
      i \in 1..Len(p.riders) }

(* C13: the roster row with slot number i references the rider of the     *)
(* i-th entry of the input, by its identifier or, when it has none, by    *)
(* the identifier its name resolves to; entries are neither reordered nor *)
(* deduplicated, and an entry with an identifier is never looked up.      *)
C13_SlotsKeepInputOrder ==
  /\ \A k \in Calls :
       callPc[k] = "insertRiders" =>
         /\ Len(riderInserts[k]) = Len(payload[k].riders)
         /\ \A i \in 1..Len(riderInserts[k]) :
              /\ riderInserts[k][i].slot = i
              /\ riderInserts[k][i].team_id = team[k].id
              /\ riderInserts[k][i].rider_id \in {RiderOfEntry(payload[k].riders[i]), 0}
              /\ payload[k].riders[i].id # 0 =>
                    riderInserts[k][i].rider_id = payload[k].riders[i].id
  /\ \A k \in Calls :
       callPc[k] = "lookup" => payload[k].riders[idx[k]].id = 0
  /\ \A k \in Calls :
       callPc[k] = "done" => SlotsOf(team[k].id) = RowsInOrder(team[k].id, payload[k])
  /\ \A tr \in team_riders :
       \E k \in Calls : callPc[k] = "done" /\ team[k].id = tr.team_id

\* a call whose input has an entry without identifier and a repeated entry
\* has written its rows
C13_Witness ==
  \E k \in Calls :
    /\ callPc[k] = "done"
    /\ \E i \in 1..Len(payload[k].riders) : payload[k].riders[i].id = 0
    /\ \E i, j \in 1..Len(payload[k].riders) :
         i < j /\ payload[k].riders[i] = payload[k].riders[j]
    /\ Cardinality(SlotsOf(team[k].id)) = DEFAULT_SLOTS

-----------------------------------------------------------------------------
\* this step invokes createMyTeam as call k
Invoked(k) == callPc[k] = "idle" /\ callPc'[k] # "idle"

\* the name without its leading and trailing spaces
TrimmedName ==
  LET solid == { i \in 1..Len(teamName) : teamName[i] # " " }
      first == CHOOSE i \in solid : \A j \in solid : i <= j
  IN  IF solid = {} THEN <<>> ELSE SubSeq(teamName, first, first + TrimmedLen(teamName) - 1)

(* C14: a click on the submit button invokes createMyTeam if and only if  *)
(* validate returns no error for the current name and slots; the payload  *)
(* then carries the trimmed name and the N riders in slot order; when     *)
(* validate fails no call is made and the store does not change.          *)
C14_SubmitOnlyValidated ==
  [][onClick =>
       /\ (\E k \in Calls : Invoked(k)) <=> (validate(teamName, slots) = NULL)
       /\ \A k \in Calls :
            Invoked(k) =>
              /\ \A j \in Calls \ {k} : callPc'[j] = callPc[j]
              /\ userId'[k] = token
              /\ payload'[k].teamName = TrimmedName
              /\ Len(payload'[k].riders) = DEFAULT_SLOTS
              /\ \A i \in 1..DEFAULT_SLOTS :
                   /\ payload'[k].riders[i].id = IdOf(slots[i])
                   /\ payload'[k].riders[i].rider_name = slots[i].rider_name
       /\ validate(teamName, slots) # NULL => UNCHANGED <<storeVars, callVars>>
       /\ UNCHANGED storeVars]_vars

\* a click on a legal form whose name has a leading space and one of whose
\* riders has no identifier has invoked createMyTeam
C14_Witness ==
  /\ pagePc = "creating"
  /\ error = NULL
  /\ teamName = PaddedName
  /\ \E k \in Calls : callPc[k] = "insertTeam" /\ payload[k].teamName = <<"a", "a", "a">>
  /\ \E i \in 1..Len(slots) : "id" \notin DOMAIN slots[i]

-----------------------------------------------------------------------------
\* the request presented a code that is missing from access_codes or inactive
BadCode(r) ==
  /\ accessCode[r] # <<>>
  /\ \A c \in access_codes : c.code = trim(accessCode[r]) => ~c.is_active

Answered(r) == reqPc[r] = "responded"

(* C15: after any interleaving of verify-code requests with the same      *)
(* active access code, at most one user row exists for the code and every *)
(* request answered with 200 carries a token for that user; a request for *)
(* a missing or inactive code is answered with 401 (with 500 when the     *)
(* read of the code failed) and creates no user.                          *)
C15_FindOrCreateRaceFree ==
  /\ \A c \in access_codes : Cardinality(UsersOf(c.id)) <= 1
  /\ \A r \in Requests :
       (Answered(r) /\ response[r].status = 200) =>
         \E u \in users :
           /\ u.access_code_id \in { c.id : c \in { x \in access_codes : x.code = trim(accessCode[r]) } }
           /\ u.id = response[r].sub
  /\ \A r \in Requests :
       (Answered(r) /\ response[r].status # 405 /\ BadCode(r)) =>
         response[r].status = 401 \/ response[r].error = "Database error"
  /\ \A u \in users : \E c \in access_codes : c.id = u.access_code_id /\ c.is_active

====
